---- MODULE Spec2Model ----
(***************************************************************************)
(* Model of ProbabilisticMatrixFactorization (pmf_cy.pyx): the rating      *)
(* sequence with its rated / unrated sets, the two factor matrices, the    *)
(* config scalars, add_ratings, __copy__ / __deepcopy__ and the fit_lls    *)
(* generator.                                                              *)
(*                                                                         *)
(* Numbers: the code computes in C float / numpy float.  Here every real   *)
(* is a multiple of 1/Q (the value x stands for x/Q) and every product or  *)
(* quotient is rounded toward zero back onto that grid, so ties, rejected  *)
(* proposals and vanishing learning rates all occur.  Ratings values and   *)
(* the variances are whole numbers.  latent_d is 1: a factor matrix is a   *)
(* function from the row (column) index to one grid value.                 *)
(***************************************************************************)
EXTENDS Integers, Sequences, FiniteSets, TLC

\* ------------------------------------------------------------------ bounds
MaxInit  == 2      \* length of the construction rating list
MaxBatch == 2      \* rows of one add_ratings batch

\* resolution of the float type: the value x stands for x/Q
Q == 8

latent_d == 1

\* row and column indices of the construction ratings
RowIndices == 0..1
ColIndices == {0}

RatingValues == {2}
\* np.random.random draws from [0, 1)
RandomValues == {3, 6}

\* ------------------------------------------------------------- arithmetic
\* a / b for b > 0, rounded toward zero
Quot(a, b) == IF a >= 0 THEN a \div b ELSE -((-a) \div b)

\* product of two grid values
Mul(a, b) == Quot(a * b, Q)

ISqrt(n) == CHOOSE k \in 0..n : k * k <= n /\ (k + 1) * (k + 1) > n

MaxOf(S) == CHOOSE x \in S : \A y \in S : y <= x

RECURSIVE SumSq(_, _)
SumSq(F, n) == IF n = 0 THEN 0 ELSE F[n - 1] * F[n - 1] + SumSq(F, n - 1)

\* np.linalg.norm of a factor matrix (Frobenius norm), on the grid
Norm(F) == ISqrt(SumSq(F, Cardinality(DOMAIN F)))

\* ------------------------------------------------------------ construction
Pairs(R) == {<<R[k][1], R[k][2]>> : k \in 1..Len(R)}

Grid(n, m) == (0..(n - 1)) \X (0..(m - 1))

\* __cinit__: the config scalars every new object starts with.  The
\* defaults 1e-4, 1e-10 and 1e-2 are below the grid's resolution; they
\* are stood for by grid values in the same order (0 < min_learning_rate <
\* learning_rate, 0 < stop_thresh).
cinit ==
    [learning_rate     |-> 4,
     min_learning_rate |-> 1,
     stop_thresh       |-> 2,
     sigma_sq          |-> 1,
     sigma_u_sq        |-> 10,
     sigma_v_sq        |-> 10]

\* __cinit__ then __init__, with U and V the np.random.random draws
Construct(rating_tuples, U, V) ==
    LET n == MaxOf({rating_tuples[k][1] : k \in 1..Len(rating_tuples)}) + 1
        m == MaxOf({rating_tuples[k][2] : k \in 1..Len(rating_tuples)}) + 1
    IN  cinit @@
        [latent_d  |-> latent_d,
         num_users |-> n,
         num_items |-> m,
         ratings   |-> rating_tuples,
         users     |-> U,
         items     |-> V,
         rated     |-> Pairs(rating_tuples),
         unrated   |-> Grid(n, m) \ Pairs(rating_tuples)]

\* the flat mapping of named fields
getstate(m) ==
    [latent_d          |-> m.latent_d,
     num_users         |-> m.num_users,
     num_items         |-> m.num_items,
     learning_rate     |-> m.learning_rate,
     min_learning_rate |-> m.min_learning_rate,
     stop_thresh       |-> m.stop_thresh,
     sigma_sq          |-> m.sigma_sq,
     sigma_u_sq        |-> m.sigma_u_sq,
     sigma_v_sq        |-> m.sigma_v_sq,
     ratings           |-> m.ratings,
     users             |-> m.users,
     items             |-> m.items,
     rated             |-> m.rated,
     unrated           |-> m.unrated]

\* setattr(self, k, v) for every item of the mapping
setstate(m, state) ==
    [k \in DOMAIN m |-> IF k \in DOMAIN state THEN state[k] ELSE m[k]]

\* the object __copy__ / __deepcopy__ return: a new object built from the
\* ratings, whose state is then set from a state mapping
copy_of(m, U, V) ==
    LET res == Construct(m.ratings, U, V)
    IN  setstate(res, getstate(res))

\* ------------------------------------------------------------- add_ratings
\* a batch is [cols: the second dimension of the array, rows: its rows];
\* a row is <<i, j, rating>> (followed by one more entry when cols is 4)
new_items(extra) == Pairs(extra.rows)

ShapeOK(m, extra) == extra.cols = 3

InRange(m, extra) ==
    /\ MaxOf({extra.rows[k][1] + 1 : k \in 1..Len(extra.rows)}) <= m.num_users
    /\ MaxOf({extra.rows[k][2] + 1 : k \in 1..Len(extra.rows)}) <= m.num_items

\* the exception add_ratings raises, "none" when it returns
add_error(m, extra) ==
    IF ~ShapeOK(m, extra) THEN "TypeError"
    ELSE IF ~InRange(m, extra) THEN "AssertionError"
    ELSE IF ~(new_items(extra) \subseteq m.unrated) THEN "ValueError"
    ELSE "none"

\* mutant: the new pairs stay in the unrated set
unrated_keep(m, extra) == m.unrated

\* mutant: the rows are not appended
ratings_keep(m, extra) == m.ratings

rated_update(m, extra) == m.rated \cup new_items(extra)

unrated_update(m, extra) == m.unrated \ new_items(extra)

ratings_append(m, extra) == m.ratings \o extra.rows

\* mutant: the pairs are checked and moved one at a time, so a batch that
\* fails on an already rated pair has moved the pairs before it
add_ratings_partial(m, extra) ==
    IF add_error(m, extra) = "ValueError"
    THEN [m EXCEPT !.rated   = @ \cup (new_items(extra) \cap m.unrated),
                   !.unrated = @ \ new_items(extra)]
    ELSE IF add_error(m, extra) # "none" THEN m
    ELSE [m EXCEPT !.rated   = rated_update(m, extra),
                   !.unrated = unrated_update(m, extra),
                   !.ratings = ratings_append(m, extra)]

\* the object after add_ratings(extra)
add_ratings(m, extra) ==
    IF add_error(m, extra) # "none" THEN m
    ELSE [m EXCEPT !.rated   = rated_update(m, extra),
                   !.unrated = unrated_update(m, extra),
                   !.ratings = ratings_append(m, extra)]

\* ------------------------------------------------- likelihood and gradient
\* rating - r_hat of the k-th rating, under factors U, V
residual(R, U, V, k) == R[k][3] * Q - Mul(U[R[k][1]], V[R[k][2]])

RECURSIVE sq_error(_, _, _, _)
sq_error(R, U, V, k) ==
    IF k = 0 THEN 0
    ELSE sq_error(R, U, V, k - 1)
         + Mul(residual(R, U, V, k), residual(R, U, V, k))

user_norm(U, V) == Norm(U)

item_norm(U, V) == Norm(U)

log_likelihood(m, U, V) ==
    - Quot(sq_error(m.ratings, U, V, Len(m.ratings)), 2 * m.sigma_sq)
    - Quot(user_norm(U, V), 2 * m.sigma_u_sq)
    - Quot(item_norm(U, V), 2 * m.sigma_v_sq)

RECURSIVE grad_acc(_, _)
grad_acc(m, k) ==
    IF k = 0
    THEN [u |-> [i \in DOMAIN m.users |-> - Quot(m.users[i], m.sigma_u_sq)],
          v |-> [j \in DOMAIN m.items |-> - Quot(m.items[j], m.sigma_v_sq)]]
    ELSE LET g == grad_acc(m, k - 1)
             i == m.ratings[k][1]
             j == m.ratings[k][2]
             d == Quot(residual(m.ratings, m.users, m.items, k), m.sigma_sq)
         IN  [u |-> [g.u EXCEPT ![i] = @ + Mul(m.items[j], d)],
              v |-> [g.v EXCEPT ![j] = @ + Mul(m.users[i], d)]]

gradient(m) == grad_acc(m, Len(m.ratings))

\* ---------------------------------------------------------------- fit_lls
initial_lr(m) == m.learning_rate

step(F, rate, g) == [i \in DOMAIN F |-> F[i] + Mul(rate, g[i])]

\* mutant: a tie counts as an improvement
improved_or_tie(new, old) == new >= old

improved(new, old) == new > old

lr_accept(rate) == Quot(rate * 5, 4)

\* mutant: a rejected proposal leaves the rate as it is
lr_stuck(rate) == rate

lr_reject(rate) == Quot(rate, 2)

small_gain(m, new, old) == new - old < m.stop_thresh

lr_exhausted(m, rate) == rate < m.min_learning_rate

\* mutant: the adapted rate is written back to the object
accept_storing_lr(m, nu, ni, rate) ==
    [m EXCEPT !.users = nu, !.items = ni, !.learning_rate = Quot(rate * 5, 4)]

\* the model object after a proposal was accepted
accept(m, nu, ni, rate) ==
    [m EXCEPT !.users = nu, !.items = ni]

\* the model object after a proposal was rejected
reject(m, nu, ni, rate) == m

\* ------------------------------------------------------------------ state
VARIABLES
    self,        \* the model object
    ret,         \* outcome of the latest call on it
    pc,          \* position of the fit_lls generator
    lr, old_ll, new_ll, converged, grad,   \* its locals
    emitted,     \* the values it has yielded, in order
    start_ll,    \* log-likelihood of the factors the run started from
    n_accepted   \* proposals it has accepted

vars == <<self, ret, pc, lr, old_ll, new_ll, converged, grad,
          emitted, start_ll, n_accepted>>

gen == <<pc, lr, old_ll, new_ll, converged, grad, emitted, start_ll,
         n_accepted>>

RatingTuples == RowIndices \X ColIndices \X RatingValues

SeqsUpTo(S, n) == UNION {[1..k -> S] : k \in 1..n}

NoGrad == <<>>

Init ==
    /\ \E rating_tuples \in SeqsUpTo(RatingTuples, MaxInit) :
         LET n == MaxOf({rating_tuples[k][1] : k \in 1..Len(rating_tuples)}) + 1
             m == MaxOf({rating_tuples[k][2] : k \in 1..Len(rating_tuples)}) + 1
         IN  \E U \in [0..(n - 1) -> RandomValues], V \in [0..(m - 1) -> RandomValues] :
               self = Construct(rating_tuples, U, V)
    /\ ret = [op |-> "init"]
    /\ pc = "idle"
    /\ lr = 0 /\ old_ll = 0 /\ new_ll = 0 /\ converged = FALSE /\ grad = NoGrad
    /\ emitted = <<>> /\ start_ll = 0 /\ n_accepted = 0

\* the caller runs only while no generator is executing
AtRest == pc \in {"idle", "suspended", "done"}

\* rows of a batch: indices from one below to one beyond the grid
BatchRows(m) ==
    (((-1)..m.num_users) \X {0} \X RatingValues)
        \cup ({0} \X {m.num_items} \X RatingValues)

\* well-shaped batches of up to MaxBatch rows, and one-row batches with a
\* column too many
Batches(m) ==
    [cols : {3}, rows : SeqsUpTo(BatchRows(m), MaxBatch)]
        \cup [cols : {4}, rows : SeqsUpTo(BatchRows(m), 1)]

AddRatings ==
    /\ AtRest
    /\ \E extra \in Batches(self) :
         /\ self' = add_ratings(self, extra)
         /\ ret' = [op      |-> "add_ratings",
                    err     |-> add_error(self, extra),
                    dup     |-> new_items(extra) \cap self.rated # {},
                    shapeOK |-> ShapeOK(self, extra),
                    inRange |-> InRange(self, extra),
                    fresh   |-> new_items(extra) \cap self.unrated # {}]
    /\ UNCHANGED gen

Copy ==
    /\ AtRest
    /\ \E U \in [0..(self.num_users - 1) -> RandomValues],
          V \in [0..(self.num_items - 1) -> RandomValues] :
         ret' = [op |-> "copy", res |-> copy_of(self, U, V)]
    /\ UNCHANGED <<self, gen>>

DeepCopy ==
    /\ AtRest
    /\ \E U \in [0..(self.num_users - 1) -> RandomValues],
          V \in [0..(self.num_items - 1) -> RandomValues] :
         ret' = [op |-> "copy", res |-> copy_of(self, U, V)]
    /\ UNCHANGED <<self, gen>>

LearningRates == {4, 8}

\* learning_rate is a public attribute
SetLearningRate ==
    /\ AtRest
    /\ \E v \in LearningRates :
         /\ self' = [self EXCEPT !.learning_rate = v]
         /\ ret' = [op |-> "set"]
    /\ UNCHANGED gen

\* fit_lls() and the first next(): the generator's prologue.  One generator
\* is live at a time: a new one starts when none is suspended.
Begin ==
    /\ pc \in {"idle", "done"}
    /\ lr' = initial_lr(self)
    /\ old_ll' = log_likelihood(self, self.users, self.items)
    /\ start_ll' = log_likelihood(self, self.users, self.items)
    /\ new_ll' = 0
    /\ converged' = FALSE
    /\ grad' = NoGrad
    /\ emitted' = <<>>
    /\ n_accepted' = 0
    /\ pc' = "outer"
    /\ ret' = [op |-> "next"]
    /\ UNCHANGED self

\* while not converged: grad_u, grad_v = self.gradient()
Gradient ==
    /\ pc = "outer"
    /\ ~converged
    /\ grad' = gradient(self)
    /\ pc' = "inner"
    /\ UNCHANGED <<self, ret, lr, old_ll, new_ll, converged, emitted,
                   start_ll, n_accepted>>

\* the while loop ends: the generator is exhausted
Stop ==
    /\ pc = "outer"
    /\ converged
    /\ pc' = "done"
    /\ UNCHANGED <<self, ret, lr, old_ll, new_ll, converged, grad, emitted,
                   start_ll, n_accepted>>

\* one pass of the inner loop: propose, then accept or halve the rate
Try ==
    /\ pc = "inner"
    /\ LET new_users == step(self.users, lr, grad.u)
           new_items_ == step(self.items, lr, grad.v)
           ll == log_likelihood(self, new_users, new_items_)
       IN  /\ new_ll' = ll
           /\ IF improved(ll, old_ll)
              THEN /\ self' = accept(self, new_users, new_items_, lr)
                   /\ lr' = lr_accept(lr)
                   /\ converged' = small_gain(self, ll, old_ll)
                   /\ n_accepted' = n_accepted + 1
                   /\ pc' = "yield"
              ELSE /\ self' = reject(self, new_users, new_items_, lr)
                   /\ lr' = lr_reject(lr)
                   /\ converged' = lr_exhausted(self, lr_reject(lr))
                   /\ n_accepted' = n_accepted
                   /\ pc' = IF lr_exhausted(self, lr_reject(lr))
                            THEN "yield" ELSE "inner"
    /\ UNCHANGED <<ret, old_ll, grad, emitted, start_ll>>

\* yield new_ll
Yield ==
    /\ pc = "yield"
    /\ emitted' = Append(emitted, new_ll)
    /\ pc' = "suspended"
    /\ UNCHANGED <<self, ret, lr, old_ll, new_ll, converged, grad,
                   start_ll, n_accepted>>

\* next() on the suspended generator: old_ll = new_ll
Resume ==
    /\ pc = "suspended"
    /\ old_ll' = new_ll
    /\ pc' = "outer"
    /\ ret' = [op |-> "next"]
    /\ UNCHANGED <<self, lr, new_ll, converged, grad, emitted, start_ll,
                   n_accepted>>

FitStep == Gradient \/ Stop \/ Try \/ Yield \/ Resume

Next ==
    \/ AddRatings \/ Copy \/ DeepCopy \/ SetLearningRate
    \/ Begin \/ Gradient \/ Stop \/ Try \/ Yield \/ Resume

Spec == Init /\ [][Next]_vars

\* fit(): the generator is consumed to exhaustion
FairSpec == Spec /\ WF_vars(FitStep)

\* ================================================================= claims
Factors(m) == <<m.users, m.items>>

Config(m) == <<m.learning_rate, m.min_learning_rate, m.stop_thresh,
               m.sigma_sq, m.sigma_u_sq, m.sigma_v_sq>>

\* the step is an add_ratings call
AddStep == AtRest /\ ret'.op = "add_ratings"

\* the step is one of the generator's (its prologue included)
FitMove == ~(AtRest /\ pc' \in {"idle", "suspended", "done"})

\* the step is a pass of the inner loop that accepted / rejected
Accepted == pc = "inner" /\ n_accepted' = n_accepted + 1
Rejected == pc = "inner" /\ n_accepted' = n_accepted

RowMax(R) == MaxOf({R[k][1] : k \in 1..Len(R)})
ColMax(R) == MaxOf({R[k][2] : k \in 1..Len(R)})

\* C1: after construction and after every add_ratings call, failed or not,
\* the rated and the unrated set are disjoint and together are exactly the
\* grid [0,num_rows) x [0,num_cols), whose sides are one plus the largest
\* row and column index of the ratings (add_ratings admits no larger index,
\* so these are the construction ratings' largest indices).
C1_Partition ==
    /\ self.rated \cap self.unrated = {}
    /\ self.rated \cup self.unrated = Grid(self.num_users, self.num_items)
    /\ self.num_users = RowMax(self.ratings) + 1
    /\ self.num_items = ColMax(self.ratings) + 1

\* a batch was added to a two-cell grid built from one rating: the cell
\* that was unrated is now rated
C1_Witness ==
    /\ ret.op = "add_ratings" /\ ret.err = "none"
    /\ Cardinality(self.rated) = 2 /\ self.unrated = {}

\* C2 as stated: a batch holding an already rated pair always fails with
\* the duplicate-rating error (ValueError) and changes nothing.
C2_AlwaysDuplicateError ==
    [][(AddStep /\ ret'.dup)
         => (ret'.err = "ValueError" /\ self' = self)]_vars

\* C2 amended: a batch holding an already rated pair always fails and
\* leaves ratings, rated, unrated and the factor matrices as they were; the
\* error is the shape error for a batch of the wrong shape, the assertion
\* failure for a well-shaped batch with an index beyond the grid, and the
\* duplicate-rating error otherwise.
C2_DuplicateFailsUnchanged ==
    [][(AddStep /\ ret'.dup)
         => /\ ret'.err # "none"
            /\ self' = self
            /\ ret'.err = (IF ~ret'.shapeOK THEN "TypeError"
                           ELSE IF ~ret'.inRange THEN "AssertionError"
                           ELSE "ValueError")]_vars

\* a well-shaped, in-range batch holding a rated and an unrated pair failed
C2_Witness ==
    /\ ret.op = "add_ratings" /\ ret.err = "ValueError"
    /\ ret.dup /\ ret.fresh

\* C3: every value the generator yields exceeds the one yielded before it,
\* and the first exceeds the log-likelihood the run started from.
C3_StrictlyIncreasing ==
    \A k \in 1..Len(emitted) :
        emitted[k] > (IF k = 1 THEN start_ll ELSE emitted[k - 1])

\* C4: the generator yields exactly one value per accepted proposal, none
\* for the proposal rejected when the rate falls below the minimum.
C4_OneValuePerAccepted ==
    pc \in {"suspended", "done"} => Len(emitted) = n_accepted

C6_RatedIsPairsOfRatings == self.rated = Pairs(self.ratings)

\* an add_ratings call failed on an index beyond the grid, after a batch
\* had been added
C6_Witness ==
    /\ ret.op = "add_ratings" /\ ret.err = "AssertionError"
    /\ Len(self.ratings) > MaxInit

\* C7 as stated: a pass of the inner loop multiplies the stored learning
\* rate by 1.25 when it accepts and by 0.5 when it rejects.
C7_StoredRateAdapts ==
    [][/\ Accepted => self'.learning_rate = Quot(self.learning_rate * 5, 4)
       /\ Rejected => self'.learning_rate = Quot(self.learning_rate, 2)]_vars

\* C7 amended: fitting adapts the generator's own rate only: it starts from
\* the stored learning rate, is multiplied by 1.25 on each accepted and by
\* 0.5 on each rejected proposal, and no step of the generator changes the
\* stored learning rate or any other config scalar.
C7_LocalRateAdapts ==
    [][FitMove
         => /\ Config(self') = Config(self)
            /\ (pc \in {"idle", "done"} => lr' = self.learning_rate)
            /\ (Accepted => lr' = Quot(lr * 5, 4))
            /\ (Rejected => lr' = Quot(lr, 2))]_vars

\* a run that follows accepted steps (the factors are no longer the
\* construction's draws) is in its first pass with the stored rate, which
\* the earlier fitting has left at its default
C7_Witness ==
    /\ pc = "inner" /\ n_accepted = 0 /\ emitted = <<>>
    /\ \E i \in DOMAIN self.users : self.users[i] \notin RandomValues
    /\ lr = self.learning_rate
    /\ self.learning_rate = cinit.learning_rate

\* C8: the object copy / deepcopy return equals the original in every
\* field.
C8_CopyEqualsOriginal ==
    ret.op = "copy" => getstate(ret.res) = getstate(self)

\* C9: the factor matrices change only in a pass of the inner loop whose
\* proposal's log-likelihood is strictly greater than old_ll; a pass that
\* rejects leaves them and halves the rate; and over a pass the
\* log-likelihood of the stored factors does not decrease.
C9_FactorsChangeOnlyOnImprovement ==
    [][/\ (Factors(self') # Factors(self) => (pc = "inner" /\ new_ll' > old_ll))
       /\ ((pc = "inner" /\ new_ll' <= old_ll)
             => (Factors(self') = Factors(self) /\ lr' = Quot(lr, 2)))
       /\ (pc = "inner"
             => log_likelihood(self', self'.users, self'.items)
                  >= log_likelihood(self, self.users, self.items))]_vars

\* after an accepted step a tie was rejected, the rate fell below the
\* minimum and the run is about to end
C9_Witness ==
    /\ pc = "yield" /\ converged
    /\ n_accepted >= 1
    /\ new_ll = old_ll
    /\ lr < self.min_learning_rate

\* C10: each (row, col) pair occurs once in the rating sequence: there are
\* as many ratings as rated pairs.
C10_NoPairTwice == Len(self.ratings) = Cardinality(self.rated)

====
